---- MODULE Spec2Model ----
(***************************************************************************)
(* Write-ahead log of the vault operations (src-tauri/src/wal.rs).         *)
(*                                                                         *)
(* The state is the file system the module works on: the WAL file          *)
(* operation.wal, the registry file vaults.json and the vault directories, *)
(* plus, for every caller (thread), the position inside the function it    *)
(* runs and that function's locals.  Every file system call of wal.rs is   *)
(* one step, so that callers can interleave and the process can stop       *)
(* between two calls.                                                      *)
(***************************************************************************)
EXTENDS Integers, Sequences, FiniteSets, TLC

VARIABLES
    wal,        \* operation.wal: [exists, data]
    registry,   \* vaults.json:   [exists, data]
    dirs,       \* vault path -> [exists, count] (count of immediate entries)
    nextId,     \* number of transaction ids generated so far
    pc,         \* thread -> stack of labels still to run (<<>>: not in a call)
    loc,        \* thread -> locals of the running call
    ret,        \* thread -> result of the last call that returned
    pre,        \* thread -> the last call: the files when it started, its
                \* arguments, the result of the call before it
    owners,     \* ids whose begin_transaction succeeded since the last deletion
    flow        \* the caller's position in the documented control flow

vars == <<wal, registry, dirs, nextId, pc, loc, ret, pre, owners, flow>>

----------------------------------------------------------------------------
\* Bounds of the model

\* transactions begun in one behaviour
MaxTxn == 2
\* immediate entries a vault directory can hold
MaxEntries == 2

Threads == {"main", "other"}
Vaults == {"v1", "v2"}
\* the vault directories: TargetPaths are the ones operations are begun on
Paths == {"p1", "p2"}
TargetPaths == {"p1"}
Msgs == {"disk full"}

----------------------------------------------------------------------------
\* Data model

WalStatus == {"Pending", "InProgress", "Completed", "RolledBack"}

\* contents of the registry file: the catalog of vaults, as serialized text
RegistryText(S) == [vaults |-> S]
Registries == {RegistryText(Vaults), RegistryText({"v2"}), RegistryText({})}

\* a file that was created (truncated) and not written yet
EmptyFile == [empty |-> TRUE]

DeleteVault(id, path, df, backup) ==
    [variant |-> "DeleteVault", vault_id |-> id, vault_path |-> path,
     delete_files |-> df, registry_backup |-> backup]
CreateVault(id, path) ==
    [variant |-> "CreateVault", vault_id |-> id, vault_path |-> path]
CleanupBrokenVaults(backup, ids) ==
    [variant |-> "CleanupBrokenVaults", registry_backup |-> backup, vault_ids |-> ids]

WalOperation ==
    {DeleteVault("v1", p, TRUE, b) : p \in TargetPaths, b \in Registries}
    \cup {CreateVault("v1", p) : p \in TargetPaths}
    \cup {CleanupBrokenVaults(b, <<"v1", "v2">>) : b \in Registries}

HasBackup(op) == op.variant \in {"DeleteVault", "CleanupBrokenVaults"}

\* Option<T>: None is <<>>, Some(x) is <<x>>
None == <<>>
Some(x) == <<x>>

WalEntry(id, op, at, st, err) ==
    [id |-> id, operation |-> op, started_at |-> at, status |-> st, error |-> err]

----------------------------------------------------------------------------
\* serde: #[serde(rename_all = "snake_case")] and #[serde(tag = "type")]

StatusTag(st) ==
    CASE st = "Pending" -> "pending"
      [] st = "InProgress" -> "in_progress"
      [] st = "Completed" -> "completed"
      [] st = "RolledBack" -> "rolled_back"

StatusTags == {StatusTag(st) : st \in WalStatus}

StatusOfTag(tag) == CHOOSE st \in WalStatus : StatusTag(st) = tag

OperationJson(op) ==
    CASE op.variant = "DeleteVault" ->
            [type |-> "delete_vault", vault_id |-> op.vault_id,
             vault_path |-> op.vault_path, delete_files |-> op.delete_files,
             registry_backup |-> op.registry_backup]
      [] op.variant = "CreateVault" ->
            [type |-> "create_vault", vault_id |-> op.vault_id,
             vault_path |-> op.vault_path]
      [] op.variant = "CleanupBrokenVaults" ->
            [type |-> "cleanup_broken_vaults",
             registry_backup |-> op.registry_backup, vault_ids |-> op.vault_ids]

OperationOfJson(j) ==
    CASE j.type = "delete_vault" ->
            DeleteVault(j.vault_id, j.vault_path, j.delete_files, j.registry_backup)
      [] j.type = "create_vault" -> CreateVault(j.vault_id, j.vault_path)
      [] j.type = "cleanup_broken_vaults" ->
            CleanupBrokenVaults(j.registry_backup, j.vault_ids)

\* serde_json::to_string_pretty(&entry)
Serialize(entry) ==
    [id |-> entry.id, operation |-> OperationJson(entry.operation),
     started_at |-> entry.started_at, status |-> StatusTag(entry.status),
     error |-> entry.error]

WellFormed(text) ==
    /\ DOMAIN text = {"id", "operation", "started_at", "status", "error"}
    /\ text.status \in StatusTags
    /\ "type" \in DOMAIN text.operation
    /\ text.operation.type \in {"delete_vault", "create_vault", "cleanup_broken_vaults"}

\* serde_json::from_str::<WalEntry>(&content)
Parse(text) ==
    IF WellFormed(text)
    THEN [ok |-> TRUE,
          entry |-> WalEntry(text.id, OperationOfJson(text.operation),
                             text.started_at, StatusOfTag(text.status), text.error)]
    ELSE [ok |-> FALSE, entry |-> None]

----------------------------------------------------------------------------
\* Threads: call stack, locals, results

NoLoc ==
    [fn |-> "", arg |-> None, msg |-> None, entry |-> None, rentry |-> None,
     path |-> "", content |-> None, open |-> FALSE, rb |-> None]

NoRet == [fn |-> "", ok |-> TRUE, val |-> [unit |-> TRUE]]

Unit == [unit |-> TRUE]
Err(kind) == [err |-> kind]

Files == [wal |-> wal, registry |-> registry, dirs |-> dirs]

Idle(t) == pc[t] = <<>>
At(t, label) == pc[t] # <<>> /\ Head(pc[t]) = label

\* the frame on top is replaced by `frames`
Jump(t, frames) == pc' = [pc EXCEPT ![t] = frames \o Tail(pc[t])]

\* the public function that thread t runs returns to its caller
Finish(t, ok, val, L) ==
    /\ pc' = [pc EXCEPT ![t] = <<>>]
    /\ loc' = [L EXCEPT ![t] = NoLoc]
    /\ ret' = [ret EXCEPT ![t] = [fn |-> loc[t].fn, ok |-> ok, val |-> val]]

\* the function on top of the stack returns Ok(()): to the caller of the public
\* function, or to the function that called it
ReturnOk(t, L) ==
    IF Len(pc[t]) = 1
    THEN Finish(t, TRUE, Unit, L)
    ELSE /\ pc' = [pc EXCEPT ![t] = Tail(pc[t])]
         /\ loc' = L
         /\ UNCHANGED ret

\* a public function is called
Call(t, fn, label, arg, msg) ==
    /\ Idle(t)
    /\ pc' = [pc EXCEPT ![t] = <<label>>]
    /\ loc' = [loc EXCEPT ![t] = [NoLoc EXCEPT !.fn = fn, !.arg = arg, !.msg = msg]]
    /\ ret' = [ret EXCEPT ![t] = NoRet]
    /\ pre' = [pre EXCEPT ![t] = Some([files |-> Files, arg |-> arg, msg |-> msg,
                                       last |-> ret[t]])]
    /\ UNCHANGED <<wal, registry, dirs, nextId, owners>>

----------------------------------------------------------------------------
\* write_synced: File::create, then write_all and sync_all

WsCreate(t) ==
    /\ At(t, "ws_create")
    /\ IF loc[t].path = "wal"
       THEN wal' = [exists |-> TRUE, data |-> EmptyFile] /\ UNCHANGED registry
       ELSE registry' = [exists |-> TRUE, data |-> EmptyFile] /\ UNCHANGED wal
    /\ Jump(t, <<"ws_write">>)
    /\ loc' = [loc EXCEPT ![t].open = TRUE]
    /\ UNCHANGED <<dirs, nextId, ret, pre, owners, flow>>

\* the write goes to the file that File::create opened: when that file has been
\* removed since, the path stays without a file
WsWrite(t) ==
    /\ At(t, "ws_write")
    /\ IF ~loc[t].open
       THEN UNCHANGED <<wal, registry>>
       ELSE IF loc[t].path = "wal"
            THEN wal' = [wal EXCEPT !.data = loc[t].content[1]] /\ UNCHANGED registry
            ELSE registry' = [registry EXCEPT !.data = loc[t].content[1]]
                 /\ UNCHANGED wal
    /\ pc' = [pc EXCEPT ![t] = Tail(pc[t])]
    /\ loc' = [loc EXCEPT ![t].path = "", ![t].content = None, ![t].open = FALSE]
    /\ UNCHANGED <<dirs, nextId, ret, pre, owners, flow>>

\* the error of a failed file system call: the message and the failing file
IoErr(kind, path) == [err |-> kind, e |-> path]

\* File::create(path) fails: no file is created or truncated, the `?` carries
\* the error through every function on the stack to the caller
WsCreateFails(t) ==
    /\ At(t, "ws_create")
    /\ Finish(t, FALSE, IoErr("Failed to create file", loc[t].path), loc)
    /\ UNCHANGED <<wal, registry, dirs, nextId, pre, owners, flow>>

\* write_all fails and leaves the file truncated, or sync_all fails after the
\* content was written
WsWriteFails(t) ==
    /\ At(t, "ws_write")
    /\ \E written \in BOOLEAN :
          IF ~written \/ ~loc[t].open
          THEN UNCHANGED <<wal, registry>>
          ELSE IF loc[t].path = "wal"
               THEN wal' = [wal EXCEPT !.data = loc[t].content[1]]
                    /\ UNCHANGED registry
               ELSE registry' = [registry EXCEPT !.data = loc[t].content[1]]
                    /\ UNCHANGED wal
    /\ Finish(t, FALSE, IoErr("Failed to write file", loc[t].path), loc)
    /\ UNCHANGED <<dirs, nextId, pre, owners, flow>>

----------------------------------------------------------------------------
\* begin_transaction

ConflictMsg == "Cannot start new transaction: previous transaction still in progress"

\* Utc::now(): the clock ticks with every transaction begun
Now == nextId + 1

\* uuid::Uuid::new_v4(): an id never used before
FreshId == nextId + 1

\* mutant: the entry is written as already running
NewEntryInProgress(op) == WalEntry(FreshId, op, Now, "InProgress", None)

NewEntry(op) == WalEntry(FreshId, op, Now, "Pending", None)

\* mutant: an entry in a terminal status does not count as a transaction
SlotTakenByRunning ==
    /\ wal.exists
    /\ Parse(wal.data).ok => Parse(wal.data).entry.status \in {"Pending", "InProgress"}

\* wal_path.exists()
SlotTaken == wal.exists

BtExists(t) ==
    /\ At(t, "bt_exists")
    /\ IF SlotTaken
       THEN /\ Finish(t, FALSE, Err(ConflictMsg), loc)
            /\ UNCHANGED nextId
       ELSE LET entry == NewEntry(loc[t].arg[1]) IN
            /\ nextId' = nextId + 1
            /\ loc' = [loc EXCEPT ![t].entry = Some(entry), ![t].path = "wal",
                                  ![t].content = Some(Serialize(entry))]
            /\ Jump(t, <<"ws_create", "bt_ret">>)
            /\ UNCHANGED ret
    /\ UNCHANGED <<wal, registry, dirs, pre, owners, flow>>

BtRet(t) ==
    /\ At(t, "bt_ret")
    /\ Finish(t, TRUE, [id |-> loc[t].entry[1].id], loc)
    /\ owners' = owners \cup {loc[t].entry[1].id}
    /\ UNCHANGED <<wal, registry, dirs, nextId, pre, flow>>

----------------------------------------------------------------------------
\* update_status

\* mutant: the entry is read without the check that the file exists
UsExistsNoCheck(t) ==
    /\ At(t, "us_exists")
    /\ Jump(t, <<"us_read">>)
    /\ UNCHANGED <<wal, registry, dirs, nextId, loc, ret, pre, owners, flow>>

UsExists(t) ==
    /\ At(t, "us_exists")
    /\ IF ~wal.exists
       THEN Finish(t, TRUE, Unit, loc)
       ELSE Jump(t, <<"us_read">>) /\ UNCHANGED <<loc, ret>>
    /\ UNCHANGED <<wal, registry, dirs, nextId, pre, owners, flow>>

\* mutant: the rewritten entry gets the time of the rewrite
WithStatusRestamped(entry, status) ==
    [entry EXCEPT !.status = status, !.started_at = Now]

\* entry.status = status
WithStatus(entry, status) == [entry EXCEPT !.status = status]

\* mutant: a file that does not parse is taken for a finished transaction
ReadWalLenient ==
    IF ~wal.exists
    THEN [ok |-> FALSE, err |-> "Failed to read WAL", entry |-> None]
    ELSE LET p == Parse(wal.data) IN
         IF p.ok
         THEN [ok |-> TRUE, err |-> "", entry |-> Some(p.entry)]
         ELSE [ok |-> TRUE, err |-> "",
               entry |-> Some(WalEntry(nextId, CreateVault("v1", "p1"), nextId,
                                       "Completed", None))]

\* fs::read_to_string(&wal_path) and serde_json::from_str(&content)
ReadWal ==
    IF ~wal.exists
    THEN [ok |-> FALSE, err |-> "Failed to read WAL", entry |-> None]
    ELSE LET p == Parse(wal.data) IN
         IF p.ok
         THEN [ok |-> TRUE, err |-> "", entry |-> Some(p.entry)]
         ELSE [ok |-> FALSE, err |-> "Failed to parse WAL", entry |-> None]

\* serde_json::to_string_pretty(&entry) and the call of write_synced
RewriteEntry(t, entry, after) ==
    /\ loc' = [loc EXCEPT ![t].entry = Some(entry), ![t].path = "wal",
                          ![t].content = Some(Serialize(entry))]
    /\ Jump(t, <<"ws_create", after>>)
    /\ UNCHANGED ret

UsRead(t) ==
    /\ At(t, "us_read")
    /\ IF ~ReadWal.ok
       THEN Finish(t, FALSE, Err(ReadWal.err), loc)
       ELSE RewriteEntry(t, WithStatus(ReadWal.entry[1], loc[t].arg[1]), "us_ret")
    /\ UNCHANGED <<wal, registry, dirs, nextId, pre, owners, flow>>

UsRet(t) ==
    /\ At(t, "us_ret")
    /\ Finish(t, TRUE, Unit, loc)
    /\ UNCHANGED <<wal, registry, dirs, nextId, pre, owners, flow>>

----------------------------------------------------------------------------
\* mark_failed

MfExists(t) ==
    /\ At(t, "mf_exists")
    /\ IF ~wal.exists
       THEN ReturnOk(t, loc)
       ELSE Jump(t, <<"mf_read">>) /\ UNCHANGED <<loc, ret>>
    /\ UNCHANGED <<wal, registry, dirs, nextId, pre, owners, flow>>

\* entry.status = RolledBack; entry.error = Some(error_msg)
WithFailure(entry, msg) == [entry EXCEPT !.status = "RolledBack", !.error = Some(msg)]

MfRead(t) ==
    /\ At(t, "mf_read")
    /\ IF ~ReadWal.ok
       THEN Finish(t, FALSE, Err(ReadWal.err), loc)
       ELSE RewriteEntry(t, WithFailure(ReadWal.entry[1], loc[t].msg[1]), "mf_ret")
    /\ UNCHANGED <<wal, registry, dirs, nextId, pre, owners, flow>>

\* mutant: the entry is dropped once it is marked as failed
MfRetRemoves(t) ==
    /\ At(t, "mf_ret")
    /\ wal' = [exists |-> FALSE, data |-> EmptyFile]
    /\ ReturnOk(t, [loc EXCEPT ![t].entry = None])
    /\ UNCHANGED <<registry, dirs, nextId, pre, owners, flow>>

MfRet(t) ==
    /\ At(t, "mf_ret")
    /\ ReturnOk(t, [loc EXCEPT ![t].entry = None])
    /\ UNCHANGED <<wal, registry, dirs, nextId, pre, owners, flow>>

----------------------------------------------------------------------------
\* commit

\* mutant: the condition is inverted
CmExistsInverted(t) ==
    /\ At(t, "cm_exists")
    /\ IF ~wal.exists
       THEN Jump(t, <<"cm_remove">>) /\ UNCHANGED <<loc, ret>>
       ELSE ReturnOk(t, loc)
    /\ UNCHANGED <<wal, registry, dirs, nextId, pre, owners, flow>>

CmExists(t) ==
    /\ At(t, "cm_exists")
    /\ IF wal.exists
       THEN Jump(t, <<"cm_remove">>) /\ UNCHANGED <<loc, ret>>
       ELSE ReturnOk(t, loc)
    /\ UNCHANGED <<wal, registry, dirs, nextId, pre, owners, flow>>

\* the handles other threads hold on the removed file no longer reach the path
Unlinked(L) ==
    [u \in Threads |-> IF L[u].path = "wal" THEN [L[u] EXCEPT !.open = FALSE] ELSE L[u]]

\* fs::remove_file
CmRemove(t) ==
    /\ At(t, "cm_remove")
    /\ IF ~wal.exists
       THEN /\ Finish(t, FALSE, Err("Failed to remove WAL file"), loc)
            /\ UNCHANGED <<wal, owners>>
       ELSE /\ wal' = [exists |-> FALSE, data |-> EmptyFile]
            /\ owners' = {}
            /\ ReturnOk(t, Unlinked(loc))
    /\ UNCHANGED <<registry, dirs, nextId, pre, flow>>

----------------------------------------------------------------------------
\* recover_incomplete and rollback_operation

RecoveredMsg == "Recovered from interrupted operation"
CleanedMsg == "Cleaned up completed transaction"

\* the directory entries above which a vault directory is kept
RollbackMaxEntries == 1

NoDir == [exists |-> FALSE, count |-> 0]

RiExists(t) ==
    /\ At(t, "ri_exists")
    /\ IF ~wal.exists
       THEN Finish(t, TRUE,
                   [recovered |-> FALSE, message |-> None, operation_type |-> None],
                   loc)
       ELSE Jump(t, <<"ri_read">>) /\ UNCHANGED <<loc, ret>>
    /\ UNCHANGED <<wal, registry, dirs, nextId, pre, owners, flow>>

\* mutant: a Pending entry is taken for one that changed nothing yet
InterruptedInProgress(status) == status = "InProgress"

\* mutant: only Completed is taken for a terminal status
InterruptedNotCompleted(status) == status # "Completed"

\* match entry.status: the interrupted statuses are rolled back
Interrupted(status) == status \in {"Pending", "InProgress"}

\* mutant: the entry is marked as rolled back before the rollback runs
RollbackStepsMarkFirst == <<"mf_exists", "rb_match", "cm_exists", "ri_ret">>

\* mutant: the file is deleted before the rollback runs
RollbackStepsCommitFirst == <<"cm_exists", "rb_match", "mf_exists", "ri_ret">>

\* rollback_operation(app, &entry)?; mark_failed(app, ..)?; commit(app)?; Ok(..)
RollbackSteps == <<"rb_match", "mf_exists", "cm_exists", "ri_ret">>

\* mutant: the stale file is reported as cleaned up and left in place
CleanupStepsNoCommit == <<"ri_clean_ret">>

\* commit(app)?; Ok(..)
CleanupSteps == <<"cm_exists", "ri_clean_ret">>

RiRead(t) ==
    /\ At(t, "ri_read")
    /\ IF ~ReadWal.ok
       THEN Finish(t, FALSE, Err(ReadWal.err), loc)
       ELSE /\ UNCHANGED ret
            /\ IF Interrupted(ReadWal.entry[1].status)
               THEN /\ loc' = [loc EXCEPT ![t].rentry = ReadWal.entry,
                                          ![t].msg = Some(RecoveredMsg)]
                    /\ Jump(t, RollbackSteps)
               ELSE /\ loc' = [loc EXCEPT ![t].rentry = ReadWal.entry]
                    /\ Jump(t, CleanupSteps)
    /\ UNCHANGED <<wal, registry, dirs, nextId, pre, owners, flow>>

\* what rollback_operation returns: (message, operation kind)
RollbackResult(op) ==
    CASE op.variant = "DeleteVault" ->
            [message |-> <<"Rolled back incomplete vault deletion: ", op.vault_id>>,
             operation_type |-> "delete_vault"]
      [] op.variant = "CreateVault" ->
            [message |-> <<"Cleaned up incomplete vault creation: ", op.vault_id>>,
             operation_type |-> "create_vault"]
      [] op.variant = "CleanupBrokenVaults" ->
            [message |-> <<"Rolled back incomplete cleanup of broken vaults: ",
                           Len(op.vault_ids)>>,
             operation_type |-> "cleanup_broken"]

\* mutant: the registry is rewritten from what the file holds now
RestoredRegistryCurrent(op) == registry.data

\* what the rollback writes to the registry file
RestoredRegistry(op) == op.registry_backup

\* match &entry.operation
RbMatch(t) ==
    /\ At(t, "rb_match")
    /\ LET op == loc[t].rentry[1].operation IN
       IF HasBackup(op)
       THEN /\ loc' = [loc EXCEPT ![t].rb = Some(RollbackResult(op)),
                                  ![t].path = "registry",
                                  ![t].content = Some(RestoredRegistry(op))]
            /\ Jump(t, <<"ws_create">>)
       ELSE /\ loc' = [loc EXCEPT ![t].rb = Some(RollbackResult(op))]
            /\ Jump(t, <<"rb_exists">>)
    /\ UNCHANGED <<wal, registry, dirs, nextId, ret, pre, owners, flow>>

\* mutant: the directory is looked up next to the target path
TargetPathOther(t) == CHOOSE p \in Paths : p # loc[t].rentry[1].operation.vault_path

TargetPath(t) == loc[t].rentry[1].operation.vault_path

\* path.exists()
RbExists(t) ==
    /\ At(t, "rb_exists")
    /\ IF dirs[TargetPath(t)].exists
       THEN Jump(t, <<"rb_read_dir">>)
       ELSE Jump(t, <<>>)
    /\ UNCHANGED <<wal, registry, dirs, nextId, loc, ret, pre, owners, flow>>

\* mutant: only an empty directory is removed
FewEntriesEmpty(count) == count < RollbackMaxEntries

\* count <= 1
FewEntries(count) == count <= RollbackMaxEntries

\* fs::read_dir(&path) and entries.count()
RbReadDir(t) ==
    /\ At(t, "rb_read_dir")
    /\ IF dirs[TargetPath(t)].exists /\ FewEntries(dirs[TargetPath(t)].count)
       THEN Jump(t, <<"rb_remove">>)
       ELSE Jump(t, <<>>)
    /\ UNCHANGED <<wal, registry, dirs, nextId, loc, ret, pre, owners, flow>>

\* let _ = fs::remove_dir_all(&path)
RbRemove(t) ==
    /\ At(t, "rb_remove")
    /\ dirs' = [dirs EXCEPT ![TargetPath(t)] = NoDir]
    /\ Jump(t, <<>>)
    /\ UNCHANGED <<wal, registry, nextId, loc, ret, pre, owners, flow>>

RiRet(t) ==
    /\ At(t, "ri_ret")
    /\ Finish(t, TRUE,
              [recovered |-> TRUE, message |-> Some(loc[t].rb[1].message),
               operation_type |-> Some(loc[t].rb[1].operation_type)],
              loc)
    /\ UNCHANGED <<wal, registry, dirs, nextId, pre, owners, flow>>

RiCleanRet(t) ==
    /\ At(t, "ri_clean_ret")
    /\ Finish(t, TRUE,
              [recovered |-> FALSE, message |-> Some(CleanedMsg),
               operation_type |-> None],
              loc)
    /\ UNCHANGED <<wal, registry, dirs, nextId, pre, owners, flow>>

----------------------------------------------------------------------------
\* Query helpers

HasActiveTransaction == wal.exists

\* Ok(None), Ok(Some(entry)) or the parse error
GetCurrentEntry ==
    IF ~wal.exists
    THEN [ok |-> TRUE, entry |-> None]
    ELSE LET p == Parse(wal.data) IN
         IF p.ok THEN [ok |-> TRUE, entry |-> Some(p.entry)]
         ELSE [ok |-> FALSE, entry |-> None]

----------------------------------------------------------------------------
\* The public functions, as calls of a thread

\* ids are generated up to MaxTxn
IdsLeft == nextId + Cardinality({u \in Threads : At(u, "bt_exists")}) < MaxTxn

begin_transaction(t, operation) ==
    /\ IdsLeft
    /\ Call(t, "begin_transaction", "bt_exists", Some(operation), None)

update_status(t, status) == Call(t, "update_status", "us_exists", Some(status), None)

mark_failed(t, error_msg) == Call(t, "mark_failed", "mf_exists", None, Some(error_msg))

commit(t) == Call(t, "commit", "cm_exists", None, None)

recover_incomplete(t) == Call(t, "recover_incomplete", "ri_exists", None, None)

\* one file system call of the function that thread t runs
Step(t) ==
    \/ WsCreate(t) \/ WsWrite(t)
    \/ BtExists(t) \/ BtRet(t)
    \/ UsExists(t) \/ UsRead(t) \/ UsRet(t)
    \/ MfExists(t) \/ MfRead(t) \/ MfRet(t)
    \/ CmExists(t) \/ CmRemove(t)
    \/ RiExists(t) \/ RiRead(t) \/ RiRet(t) \/ RiCleanRet(t)
    \/ RbMatch(t) \/ RbExists(t) \/ RbReadDir(t) \/ RbRemove(t)

----------------------------------------------------------------------------
\* The caller's own work between two calls: the registry component rewrites
\* vaults.json, the vault commands create a directory and files in it

Main == "main"

Forget(t) ==
    /\ ret' = [ret EXCEPT ![t] = NoRet]
    /\ pre' = [pre EXCEPT ![t] = None]

WriteRegistry(r) ==
    /\ Idle(Main)
    /\ registry.data # r
    /\ registry' = [exists |-> TRUE, data |-> r]
    /\ Forget(Main)
    /\ UNCHANGED <<wal, dirs, nextId, pc, loc, owners>>

MkDir(p) ==
    /\ Idle(Main)
    /\ ~dirs[p].exists
    /\ dirs' = [dirs EXCEPT ![p] = [exists |-> TRUE, count |-> 0]]
    /\ Forget(Main)
    /\ UNCHANGED <<wal, registry, nextId, pc, loc, owners>>

AddEntry(p) ==
    /\ Idle(Main)
    /\ dirs[p].exists
    /\ dirs[p].count < MaxEntries
    /\ dirs' = [dirs EXCEPT ![p].count = @ + 1]
    /\ Forget(Main)
    /\ UNCHANGED <<wal, registry, nextId, pc, loc, owners>>

----------------------------------------------------------------------------
\* One caller, any order of calls

NoFlow == [phase |-> "free", before |-> EmptyFile, after |-> EmptyFile, crashes |-> 0]

Init ==
    /\ wal = [exists |-> FALSE, data |-> EmptyFile]
    /\ registry = [exists |-> TRUE, data |-> RegistryText(Vaults)]
    /\ dirs = [p \in Paths |-> IF p \in TargetPaths THEN NoDir
                                 ELSE [exists |-> TRUE, count |-> 0]]
    /\ nextId = 0
    /\ pc = [t \in Threads |-> <<>>]
    /\ loc = [t \in Threads |-> NoLoc]
    /\ ret = [t \in Threads |-> NoRet]
    /\ pre = [t \in Threads |-> None]
    /\ owners = {}
    /\ flow = NoFlow

CallBegin == \E op \in WalOperation : begin_transaction(Main, op) /\ UNCHANGED flow
CallUpdateStatus == \E st \in WalStatus : update_status(Main, st) /\ UNCHANGED flow
CallMarkFailed == \E m \in Msgs : mark_failed(Main, m) /\ UNCHANGED flow
CallCommit == commit(Main) /\ UNCHANGED flow
CallRecover == recover_incomplete(Main) /\ UNCHANGED flow
CallerWork ==
    /\ \/ \E r \in Registries : WriteRegistry(r)
       \/ \E p \in TargetPaths : MkDir(p)
       \/ \E p \in TargetPaths : AddEntry(p)
    /\ UNCHANGED flow

Next ==
    \/ CallBegin \/ CallUpdateStatus \/ CallMarkFailed \/ CallCommit \/ CallRecover
    \/ CallerWork
    \/ \E t \in Threads : Step(t)

Spec == Init /\ [][Next]_vars

----------------------------------------------------------------------------
\* Two callers of begin_transaction and commit at once, any order of steps

ConcOperation ==
    {CreateVault("v1", "p1"), DeleteVault("v1", "p1", TRUE, RegistryText(Vaults))}

ConcBegin == \E t \in Threads, op \in ConcOperation :
                begin_transaction(t, op) /\ UNCHANGED flow
ConcCommit == \E t \in Threads : commit(t) /\ UNCHANGED flow

\* the steps of begin_transaction and commit
ConcStep(t) ==
    \/ BtExists(t) \/ WsCreate(t) \/ WsWrite(t) \/ BtRet(t)
    \/ CmExists(t) \/ CmRemove(t)

NextConc == ConcBegin \/ ConcCommit \/ \E t \in Threads : ConcStep(t)

SpecConc == Init /\ [][NextConc]_vars

----------------------------------------------------------------------------
\* One caller that follows the documented control flow, in a process that can
\* stop at any step: recover_incomplete at startup, then begin_transaction with
\* a snapshot of the registry, update_status(InProgress), the registry mutation
\* in one or more steps, update_status(Completed), commit.

Range(seq) == {seq[i] : i \in DOMAIN seq}

\* the operations that can be begun on the registry r, each with r as snapshot
FlowOperation(r) ==
    {DeleteVault(v, "p1", TRUE, r) : v \in r.vaults}
    \cup (IF r.vaults = Vaults THEN {CleanupBrokenVaults(r, <<"v1", "v2">>)} ELSE {})

\* the vaults the operation removes from the registry, in the order of removal
Removed(op) == IF op.variant = "DeleteVault" THEN <<op.vault_id>> ELSE op.vault_ids

\* the registry after the fully applied operation
Applied(op, r) == RegistryText(r.vaults \ Range(Removed(op)))

\* the registry after one more step of the mutation: the next vault is removed
OneStep(r, after) ==
    LET left == r.vaults \ after.vaults
        v == CHOOSE x \in left : \A y \in left : x = "v1" \/ y # "v1"
    IN  RegistryText(r.vaults \ {v})

InitFlow ==
    /\ wal = [exists |-> FALSE, data |-> EmptyFile]
    /\ registry = [exists |-> TRUE, data |-> RegistryText(Vaults)]
    /\ dirs = [p \in Paths |-> IF p \in TargetPaths THEN NoDir
                                 ELSE [exists |-> TRUE, count |-> 0]]
    /\ nextId = 0
    /\ pc = [t \in Threads |-> <<>>]
    /\ loc = [t \in Threads |-> NoLoc]
    /\ ret = [t \in Threads |-> NoRet]
    /\ pre = [t \in Threads |-> None]
    /\ owners = {}
    /\ flow = [phase |-> "boot", before |-> RegistryText(Vaults),
               after |-> RegistryText(Vaults), crashes |-> 0]

\* the call made in the phase has returned success
Succeeded(phase, fn) ==
    /\ flow.phase = phase
    /\ Idle(Main)
    /\ ret[Main].fn = fn
    /\ ret[Main].ok

\* no operation is running: recovery is done, or the last operation is committed
Ready == Succeeded("startup", "recover_incomplete") \/ Succeeded("committing", "commit")

\* the transaction is begun and not committed yet
Working ==
    \/ Succeeded("beginning", "begin_transaction")
    \/ flow.phase = "working" /\ Idle(Main)

FlowStartup ==
    /\ flow.phase = "boot"
    /\ recover_incomplete(Main)
    /\ flow' = [flow EXCEPT !.phase = "startup"]

FlowBegin ==
    /\ Ready
    /\ \E op \in FlowOperation(registry.data) :
          /\ begin_transaction(Main, op)
          /\ flow' = [flow EXCEPT !.phase = "beginning", !.before = registry.data,
                                   !.after = Applied(op, registry.data)]

FlowInProgress ==
    /\ Working
    /\ update_status(Main, "InProgress")
    /\ flow' = [flow EXCEPT !.phase = "working"]

FlowMutate ==
    /\ Working
    /\ registry.data # flow.after
    /\ registry' = [exists |-> TRUE, data |-> OneStep(registry.data, flow.after)]
    /\ Forget(Main)
    /\ flow' = [flow EXCEPT !.phase = "working"]
    /\ UNCHANGED <<wal, dirs, nextId, pc, loc, owners>>

FlowCompleted ==
    /\ Working
    /\ registry.data = flow.after
    /\ update_status(Main, "Completed")
    /\ flow' = [flow EXCEPT !.phase = "working"]

FlowCommit ==
    /\ Working
    /\ registry.data = flow.after
    /\ commit(Main)
    /\ flow' = [flow EXCEPT !.phase = "committing"]

\* the process stops: the files stay, the calls in progress are gone
Crash ==
    /\ flow.phase # "boot"
    /\ pc' = [t \in Threads |-> <<>>]
    /\ loc' = [t \in Threads |-> NoLoc]
    /\ ret' = [t \in Threads |-> NoRet]
    /\ pre' = [t \in Threads |-> None]
    /\ flow' = [flow EXCEPT !.phase = "boot"]
    /\ UNCHANGED <<wal, registry, dirs, nextId, owners>>

\* the steps of the functions the flow calls (it begins no CreateVault)
FlowStep(t) ==
    \/ WsCreate(t) \/ WsWrite(t)
    \/ BtExists(t) \/ BtRet(t)
    \/ UsExists(t) \/ UsRead(t) \/ UsRet(t)
    \/ MfExists(t) \/ MfRead(t) \/ MfRet(t)
    \/ CmExists(t) \/ CmRemove(t)
    \/ RiExists(t) \/ RiRead(t) \/ RiRet(t) \/ RiCleanRet(t)
    \/ RbMatch(t)

NextFlow ==
    \/ FlowStartup \/ FlowBegin \/ FlowInProgress \/ FlowMutate \/ FlowCompleted
    \/ FlowCommit \/ Crash
    \/ \E t \in Threads : FlowStep(t)

SpecFlow == InitFlow /\ [][NextFlow]_vars

----------------------------------------------------------------------------
\* The same caller, which can also give an operation up: it calls mark_failed
\* and leaves the transaction to the recovery of the next startup

FlowMarkFailed ==
    /\ Working
    /\ \E m \in Msgs : mark_failed(Main, m)
    /\ flow' = [flow EXCEPT !.phase = "failed"]

NextFail == NextFlow \/ FlowMarkFailed

SpecFail == InitFlow /\ [][NextFail]_vars

----------------------------------------------------------------------------
\* The same caller in a process that stops at most MaxCrashes times; every
\* startup calls recover_incomplete, every call that is not cut short by a
\* stop runs to its return, and the application is started again whenever
\* recovery has failed

\* stops of the process in one behaviour
MaxCrashes == 2

CrashCounted ==
    /\ flow.crashes < MaxCrashes
    /\ flow.phase # "boot"
    /\ pc' = [t \in Threads |-> <<>>]
    /\ loc' = [t \in Threads |-> NoLoc]
    /\ ret' = [t \in Threads |-> NoRet]
    /\ pre' = [t \in Threads |-> None]
    /\ flow' = [flow EXCEPT !.phase = "boot", !.crashes = @ + 1]
    /\ UNCHANGED <<wal, registry, dirs, nextId, owners>>

\* recovery has failed: the application is started again
Restart ==
    /\ flow.phase = "startup"
    /\ Idle(Main)
    /\ ret[Main].fn = "recover_incomplete"
    /\ ~ret[Main].ok
    /\ ret' = [ret EXCEPT ![Main] = NoRet]
    /\ pre' = [pre EXCEPT ![Main] = None]
    /\ flow' = [flow EXCEPT !.phase = "boot"]
    /\ UNCHANGED <<wal, registry, dirs, nextId, pc, loc, owners>>

NextLive ==
    \/ FlowStartup \/ FlowBegin \/ FlowInProgress \/ FlowMutate \/ FlowCompleted
    \/ FlowCommit \/ CrashCounted \/ Restart
    \/ \E t \in Threads : FlowStep(t)

SpecLive ==
    /\ InitFlow
    /\ [][NextLive]_vars
    /\ WF_vars(FlowStartup)
    /\ WF_vars(FlowStep(Main))
    /\ WF_vars(Restart)

----------------------------------------------------------------------------
\* One caller, any order of calls, and file system calls that can fail

IoOperation ==
    {DeleteVault("v1", "p1", TRUE, RegistryText({"v2"})),
     CleanupBrokenVaults(RegistryText(Vaults), <<"v1", "v2">>),
     CreateVault("v1", "p1")}

IoBegin == \E op \in IoOperation : begin_transaction(Main, op) /\ UNCHANGED flow

NextIO ==
    \/ IoBegin \/ CallUpdateStatus \/ CallMarkFailed \/ CallCommit \/ CallRecover
    \/ \E p \in TargetPaths : MkDir(p) /\ UNCHANGED flow
    \/ \E t \in Threads : Step(t)
    \/ \E t \in Threads : WsCreateFails(t)
    \/ \E t \in Threads : WsWriteFails(t)

SpecIO == Init /\ [][NextIO]_vars

----------------------------------------------------------------------------
\* One caller that begins and commits, and a second one that calls
\* update_status and mark_failed at the same time, any order of steps

Worker == "other"

RaceBegin == \E op \in ConcOperation : begin_transaction(Main, op) /\ UNCHANGED flow
RaceCommit == commit(Main) /\ UNCHANGED flow
RaceUpdateStatus == \E st \in WalStatus : update_status(Worker, st) /\ UNCHANGED flow
RaceMarkFailed == \E m \in Msgs : mark_failed(Worker, m) /\ UNCHANGED flow

\* the steps of the four functions
RaceStep(t) ==
    \/ WsCreate(t) \/ WsWrite(t)
    \/ BtExists(t) \/ BtRet(t)
    \/ UsExists(t) \/ UsRead(t) \/ UsRet(t)
    \/ MfExists(t) \/ MfRead(t) \/ MfRet(t)
    \/ CmExists(t) \/ CmRemove(t)

NextRace ==
    \/ RaceBegin \/ RaceCommit \/ RaceUpdateStatus \/ RaceMarkFailed
    \/ \E t \in Threads : RaceStep(t)

SpecRace == Init /\ [][NextRace]_vars

----------------------------------------------------------------------------
\* What a call did: the state when it returned against the state when it started

\* thread t's call of fn has returned and nothing has happened since
Returned(t, fn) == Idle(t) /\ ret[t].fn = fn /\ pre[t] # None

Started(t) == pre[t][1]

\* the entry in the WAL file when the call started (a well-formed one)
HadEntry(t) == Started(t).files.wal.exists /\ Parse(Started(t).files.wal.data).ok
EntryBefore(t) == Parse(Started(t).files.wal.data).entry

FilesUnchanged(t) == Files = Started(t).files

----------------------------------------------------------------------------
\* C1: recover_incomplete on a Pending or InProgress entry of a DeleteVault or
\* CleanupBrokenVaults operation carrying the snapshot R0 leaves the registry file
\* equal to R0 whatever it held, leaves no WAL file and returns recovered = true
\* with the operation kind "delete_vault" or "cleanup_broken".
RecoveryCase(t) ==
    /\ Returned(t, "recover_incomplete")
    /\ ret[t].ok
    /\ HadEntry(t)
    /\ EntryBefore(t).status \in {"Pending", "InProgress"}
    /\ HasBackup(EntryBefore(t).operation)

C1_RecoveryRestoresRegistry ==
    \A t \in Threads :
        RecoveryCase(t) =>
            /\ registry = [exists |-> TRUE,
                           data |-> EntryBefore(t).operation.registry_backup]
            /\ ~wal.exists
            /\ ret[t].val.recovered = TRUE
            /\ ret[t].val.operation_type =
                  Some(IF EntryBefore(t).operation.variant = "DeleteVault"
                       THEN "delete_vault" ELSE "cleanup_broken")

C1_Witness ==
    /\ RecoveryCase(Main)
    /\ EntryBefore(Main).operation.variant = "CleanupBrokenVaults"
    /\ Started(Main).files.registry.data # EntryBefore(Main).operation.registry_backup
    /\ registry.data = EntryBefore(Main).operation.registry_backup

----------------------------------------------------------------------------
\* C4: begin_transaction called while a WAL file exists, whatever the status of
\* its entry, returns the conflict error and leaves the WAL file's content and
\* the registry as they were.
C4_ConflictLeavesFiles ==
    \A t \in Threads :
        (Returned(t, "begin_transaction") /\ Started(t).files.wal.exists) =>
            /\ ~ret[t].ok
            /\ ret[t].val = Err(ConflictMsg)
            /\ wal = Started(t).files.wal
            /\ registry = Started(t).files.registry

C4_Witness ==
    /\ Returned(Main, "begin_transaction")
    /\ HadEntry(Main)
    /\ EntryBefore(Main).status = "Completed"
    /\ ~ret[Main].ok

----------------------------------------------------------------------------
\* C5: when no WAL file exists and begin_transaction(op) succeeds,
\* has_active_transaction is true and get_current_entry returns the entry with
\* operation op, status Pending, no error and the id that was returned.
C5_BeginWritesPendingEntry ==
    \A t \in Threads :
        (Returned(t, "begin_transaction") /\ ~Started(t).files.wal.exists
            /\ ret[t].ok) =>
            /\ HasActiveTransaction
            /\ GetCurrentEntry.ok
            /\ GetCurrentEntry.entry # None
            /\ LET entry == GetCurrentEntry.entry[1] IN
               /\ entry.operation = Started(t).arg[1]
               /\ entry.status = "Pending"
               /\ entry.error = None
               /\ entry.id = ret[t].val.id

C5_Witness ==
    /\ Returned(Main, "begin_transaction")
    /\ ret[Main].ok
    /\ Started(Main).arg[1].variant = "CreateVault"
    /\ HasActiveTransaction

----------------------------------------------------------------------------
\* C6: after a successful commit there is no WAL file and has_active_transaction
\* is false, whether the file existed (it is deleted) or not (nothing changes and
\* the call succeeds); a begin_transaction issued next succeeds.
C6_CommitFreesSlot ==
    \A t \in Threads :
        /\ (Returned(t, "commit") /\ ret[t].ok) =>
              /\ ~wal.exists
              /\ ~HasActiveTransaction
              /\ registry = Started(t).files.registry
              /\ dirs = Started(t).files.dirs
        /\ (Returned(t, "commit") /\ ~Started(t).files.wal.exists) =>
              ret[t].ok /\ FilesUnchanged(t)
        /\ (Returned(t, "begin_transaction") /\ Started(t).last.fn = "commit"
              /\ Started(t).last.ok) => ret[t].ok

C6_Witness ==
    /\ Returned(Main, "begin_transaction")
    /\ Started(Main).last.fn = "commit"
    /\ ret[Main].ok
    /\ nextId = 2

----------------------------------------------------------------------------
\* C7: recover_incomplete on an entry whose status is Completed or RolledBack
\* deletes the WAL file, returns recovered = false with no operation kind and
\* leaves the registry file and every vault directory unchanged, for every
\* operation variant.
C7_TerminalEntryOnlyDeleted ==
    \A t \in Threads :
        (Returned(t, "recover_incomplete") /\ HadEntry(t)
            /\ EntryBefore(t).status \in {"Completed", "RolledBack"}) =>
            /\ ret[t].ok
            /\ ~wal.exists
            /\ ret[t].val.recovered = FALSE
            /\ ret[t].val.operation_type = None
            /\ registry = Started(t).files.registry
            /\ dirs = Started(t).files.dirs

\* a directory that a rollback would have removed, a registry that a rollback
\* would have overwritten
C7_Witness ==
    /\ Returned(Main, "recover_incomplete")
    /\ HadEntry(Main)
    /\ EntryBefore(Main).status = "RolledBack"
    /\ EntryBefore(Main).operation.variant = "CreateVault"
    /\ Started(Main).files.dirs["p1"] = [exists |-> TRUE, count |-> 1]
    /\ ~wal.exists

----------------------------------------------------------------------------
\* C8: rolling back a Pending or InProgress CreateVault entry deletes the target
\* directory when it exists with 0 or 1 immediate entries, leaves it untouched
\* when it holds 2 or more, and deletes nothing when the target does not exist.
CreateRollbackCase(t) ==
    /\ Returned(t, "recover_incomplete")
    /\ HadEntry(t)
    /\ EntryBefore(t).status \in {"Pending", "InProgress"}
    /\ EntryBefore(t).operation.variant = "CreateVault"

C8_WitnessKept ==
    /\ CreateRollbackCase(Main)
    /\ Started(Main).files.dirs["p1"] = [exists |-> TRUE, count |-> 2]
    /\ dirs["p1"] = [exists |-> TRUE, count |-> 2]

----------------------------------------------------------------------------
\* C9: a recover_incomplete that directly follows a successful recover_incomplete
\* finds no WAL file, returns recovered = false and changes neither the WAL file,
\* nor the registry, nor a vault directory.
C9_RecoverTwice ==
    \A t \in Threads :
        (Returned(t, "recover_incomplete")
            /\ Started(t).last.fn = "recover_incomplete" /\ Started(t).last.ok) =>
            /\ ~Started(t).files.wal.exists
            /\ ret[t].ok
            /\ ret[t].val.recovered = FALSE
            /\ FilesUnchanged(t)

C9_Witness ==
    /\ Returned(Main, "recover_incomplete")
    /\ Started(Main).last.fn = "recover_incomplete"
    /\ Started(Main).last.val.recovered = TRUE
    /\ ret[Main].val.recovered = FALSE

----------------------------------------------------------------------------
\* C10: with no WAL file, update_status(s) for every status s and mark_failed(m)
\* for every message m return success, create no WAL file and change nothing.
C10_NoFileNoOp ==
    \A t \in Threads :
        ((Returned(t, "update_status") \/ Returned(t, "mark_failed"))
            /\ ~Started(t).files.wal.exists) =>
            /\ ret[t].ok
            /\ ret[t].val = Unit
            /\ ~wal.exists
            /\ FilesUnchanged(t)

C10_Witness ==
    /\ Returned(Main, "mark_failed")
    /\ ~Started(Main).files.wal.exists
    /\ Started(Main).last.fn = "commit"
    /\ ~wal.exists

----------------------------------------------------------------------------
\* C2: a caller follows the documented control flow, the process may stop
\* between any two steps and recover_incomplete runs at every startup: whenever
\* there is no WAL file, the registry file holds its content before the
\* operation or its content after the fully applied operation.
C2_NoPartialRegistryWithoutWal ==
    ~wal.exists => registry.data \in {flow.before, flow.after}

\* recovery has undone a partially applied cleanup
C2_Witness ==
    /\ ~wal.exists
    /\ Returned(Main, "recover_incomplete")
    /\ ret[Main].ok
    /\ ret[Main].val.recovered = TRUE
    /\ Started(Main).files.registry.data \notin {flow.before, flow.after}
    /\ registry.data = flow.before

----------------------------------------------------------------------------
\* C3: for every interleaving of callers, no two begin_transaction calls both
\* return success unless the WAL file was deleted between the two successes.
C3_SingleActiveTransaction == Cardinality(owners) <= 1

----------------------------------------------------------------------------
\* the entry in the WAL file now (a well-formed one)
HasEntry == wal.exists /\ Parse(wal.data).ok
EntryNow == Parse(wal.data).entry

\* thread t's call of update_status or mark_failed has rewritten an entry
Rewrote(t) ==
    /\ Returned(t, "update_status") \/ Returned(t, "mark_failed")
    /\ ret[t].ok
    /\ HadEntry(t)

\* the moves of the status along Pending -> InProgress -> Completed and
\* Pending/InProgress -> RolledBack
StatusMoves ==
    {<<"Pending", "InProgress">>, <<"Pending", "Completed">>,
     <<"InProgress", "Completed">>,
     <<"Pending", "RolledBack">>, <<"InProgress", "RolledBack">>}

\* C11: over every sequence of the public operations the status of the on-disk
\* entry of one transaction stays or moves forward along Pending -> InProgress
\* -> Completed or Pending/InProgress -> RolledBack; it never moves backwards
\* and Completed and RolledBack are left only by the deletion of the file.
C11_StatusMovesForward ==
    \A t \in Threads :
        (Rewrote(t) /\ HasEntry /\ EntryNow.id = EntryBefore(t).id) =>
            \/ EntryNow.status = EntryBefore(t).status
            \/ <<EntryBefore(t).status, EntryNow.status>> \in StatusMoves

----------------------------------------------------------------------------
\* C13: update_status and mark_failed on an existing entry leave its id, its
\* operation (with the registry snapshot and the vault ids) and started_at as
\* they were; update_status changes the status only, to the one it is given,
\* mark_failed changes the status, to RolledBack, and the error, to its message.
C13_RewriteKeepsEntry ==
    \A t \in Threads :
        Rewrote(t) =>
            /\ HasEntry
            /\ EntryNow.id = EntryBefore(t).id
            /\ EntryNow.operation = EntryBefore(t).operation
            /\ EntryNow.started_at = EntryBefore(t).started_at
            /\ Returned(t, "update_status") =>
                  /\ EntryNow.status = Started(t).arg[1]
                  /\ EntryNow.error = EntryBefore(t).error
            /\ Returned(t, "mark_failed") =>
                  /\ EntryNow.status = "RolledBack"
                  /\ EntryNow.error = Started(t).msg

\* update_status has rewritten an entry that mark_failed had given an error
C13_Witness ==
    /\ Returned(Main, "update_status")
    /\ Rewrote(Main)
    /\ Started(Main).last.fn = "mark_failed"
    /\ EntryBefore(Main).error # None
    /\ HasBackup(EntryBefore(Main).operation)
    /\ EntryNow.status = "InProgress"

----------------------------------------------------------------------------
\* a call that leaves the entry in a terminal status has returned
MarkedTerminal(t) ==
    /\ \/ Returned(t, "mark_failed")
       \/ Returned(t, "update_status") /\ Started(t).arg = Some("Completed")
    /\ Started(t).files.wal.exists

\* begin_transaction was called right after such a call and has returned
BeganAfterTerminal(t) ==
    /\ Returned(t, "begin_transaction")
    /\ Started(t).files.wal.exists
    /\ \/ Started(t).last.fn = "mark_failed"
       \/ Started(t).last.fn = "update_status"

\* C14: every step that takes the WAL file from present to absent is the
\* remove_file of commit, called by the caller or inside recover_incomplete;
\* after mark_failed or update_status(Completed) the file is still present,
\* has_active_transaction is true and begin_transaction fails with the conflict
\* error.
C14_OnlyCommitRemoves ==
    [][/\ (wal.exists /\ ~wal'.exists) =>
              \E t \in Threads : At(t, "cm_remove") /\ loc[t].fn \in
                                    {"commit", "recover_incomplete"}
       /\ \A t \in Threads :
            /\ MarkedTerminal(t)' => (wal.exists /\ HasActiveTransaction)'
            /\ BeganAfterTerminal(t)' =>
                  (~ret[t].ok /\ ret[t].val = Err(ConflictMsg) /\ wal.exists)'
      ]_vars

\* begin_transaction has failed after mark_failed left its entry on disk
C14_Witness ==
    /\ BeganAfterTerminal(Main)
    /\ Started(Main).last.fn = "mark_failed"
    /\ ~ret[Main].ok
    /\ HasEntry
    /\ EntryNow.status = "RolledBack"

----------------------------------------------------------------------------
\* thread t is inside recover_incomplete, rolling back an interrupted operation
\* that carries a registry snapshot
RollingBack(t) ==
    /\ loc[t].fn = "recover_incomplete"
    /\ loc[t].rentry # None
    /\ Interrupted(loc[t].rentry[1].status)
    /\ HasBackup(loc[t].rentry[1].operation)

\* C17: in no state inside recover_incomplete on a Pending or InProgress entry
\* of a DeleteVault or CleanupBrokenVaults operation is the on-disk status
\* RolledBack, or the WAL file absent, while the registry file differs from the
\* snapshot in the entry: the rollback comes first, then the status, then the
\* deletion.
C17_RollbackBeforeMark ==
    \A t \in Threads :
        (RollingBack(t)
            /\ (~wal.exists \/ (HasEntry /\ EntryNow.status = "RolledBack"))) =>
            registry.data = loc[t].rentry[1].operation.registry_backup

\* the entry is marked and not deleted yet, after a registry that differed
C17_Witness ==
    /\ RollingBack(Main)
    /\ At(Main, "cm_exists")
    /\ HasEntry
    /\ EntryNow.status = "RolledBack"
    /\ EntryNow.error = Some(RecoveredMsg)
    /\ Started(Main).files.registry.data # registry.data

----------------------------------------------------------------------------
\* thread t's recover_incomplete has read an interrupted entry and is rolling
\* it back, or has returned after that
RollbackRan(t) ==
    /\ pre[t] # None
    /\ HadEntry(t)
    /\ Interrupted(EntryBefore(t).status)
    /\ \/ Returned(t, "recover_incomplete")
       \/ loc[t].fn = "recover_incomplete" /\ loc[t].rentry # None

\* C18: the rollback of a DeleteVault or CleanupBrokenVaults operation changes
\* nothing at a vault path; the rollback of a CreateVault operation changes
\* no directory but its target and leaves the registry file alone.
C18_RollbackTouchesOnlyItsTarget ==
    \A t \in Threads :
        RollbackRan(t) =>
            LET op == EntryBefore(t).operation IN
            IF HasBackup(op)
            THEN dirs = Started(t).files.dirs
            ELSE /\ registry = Started(t).files.registry
                 /\ \A p \in Paths \ {op.vault_path} :
                        dirs[p] = Started(t).files.dirs[p]

\* a deletion was rolled back while the directory of the vault was there
C18_Witness ==
    /\ RollbackRan(Main)
    /\ Returned(Main, "recover_incomplete")
    /\ EntryBefore(Main).operation.variant = "DeleteVault"
    /\ registry # Started(Main).files.registry
    /\ dirs[EntryBefore(Main).operation.vault_path].exists

----------------------------------------------------------------------------
\* C12: whenever the on-disk entry has the status RolledBack and its operation
\* is DeleteVault or CleanupBrokenVaults, the registry file equals the snapshot
\* in the entry, also after the caller's own mark_failed on a partly applied
\* registry mutation.
C12_RolledBackMeansRestored ==
    (HasEntry /\ EntryNow.status = "RolledBack" /\ HasBackup(EntryNow.operation)) =>
        registry.data = EntryNow.operation.registry_backup

----------------------------------------------------------------------------
\* the result r is the error of a failed write of the registry file
RegistryWriteFailed(r) ==
    /\ ~r.ok
    /\ "e" \in DOMAIN r.val
    /\ r.val.e = "registry"

\* C15: when the write that restores the registry fails inside
\* recover_incomplete on a Pending or InProgress entry of a DeleteVault or
\* CleanupBrokenVaults operation, recover_incomplete returns the error and the
\* WAL file is as it was, status included; the next recover_incomplete, when its
\* writes succeed, restores the registry, deletes the WAL file and returns
\* recovered = true.
C15_FailedRestoreKeepsWal ==
    \A t \in Threads :
        Returned(t, "recover_incomplete") =>
            /\ RegistryWriteFailed(ret[t]) =>
                  /\ HadEntry(t)
                  /\ Interrupted(EntryBefore(t).status)
                  /\ HasBackup(EntryBefore(t).operation)
                  /\ ret[t].val.err \in {"Failed to create file", "Failed to write file"}
                  /\ wal = Started(t).files.wal
            /\ (ret[t].ok /\ Started(t).last.fn = "recover_incomplete"
                  /\ RegistryWriteFailed(Started(t).last)) =>
                  /\ HadEntry(t)
                  /\ ret[t].val.recovered = TRUE
                  /\ ~wal.exists
                  /\ registry.data = EntryBefore(t).operation.registry_backup

\* the failed write left the registry file truncated, the retry restored it
C15_Witness ==
    /\ Returned(Main, "recover_incomplete")
    /\ ret[Main].ok
    /\ Started(Main).last.fn = "recover_incomplete"
    /\ RegistryWriteFailed(Started(Main).last)
    /\ Started(Main).files.registry.data = EmptyFile
    /\ registry.data = EntryBefore(Main).operation.registry_backup
    /\ ~wal.exists

----------------------------------------------------------------------------
ParseError == Err("Failed to parse WAL")

\* C16: on a WAL file that exists and does not parse, recover_incomplete returns
\* the parse error and changes no file and no directory; begin_transaction
\* called after it fails with the conflict error.
C16_UnparsableWalIsKept ==
    \A t \in Threads :
        /\ (Returned(t, "recover_incomplete")
              /\ Started(t).files.wal.exists
              /\ ~Parse(Started(t).files.wal.data).ok) =>
              /\ ~ret[t].ok
              /\ ret[t].val = ParseError
              /\ FilesUnchanged(t)
        /\ (Returned(t, "begin_transaction")
              /\ Started(t).last.fn = "recover_incomplete"
              /\ Started(t).last.val = ParseError) =>
              /\ ~ret[t].ok
              /\ ret[t].val = Err(ConflictMsg)
              /\ FilesUnchanged(t)

\* begin_transaction has failed on the file that recovery could not parse
C16_Witness ==
    /\ Returned(Main, "begin_transaction")
    /\ Started(Main).last.fn = "recover_incomplete"
    /\ Started(Main).last.val = ParseError
    /\ ~ret[Main].ok
    /\ wal = [exists |-> TRUE, data |-> EmptyFile]

----------------------------------------------------------------------------
\* C19: once commit has returned success the WAL file is absent until the next
\* begin_transaction, also when update_status or mark_failed runs at the same
\* time as the commit.
C19_CommittedStaysAbsent ==
    (Returned(Main, "commit") /\ ret[Main].ok) => ~wal.exists

----------------------------------------------------------------------------
\* recover_incomplete has returned success and there is no WAL file
RecoveredClean ==
    /\ Returned(Main, "recover_incomplete")
    /\ ret[Main].ok
    /\ ~wal.exists

\* C20: with no I/O error, whenever the process has stopped and left a WAL
\* file, a recover_incomplete of a later startup eventually returns success
\* with the WAL file absent.
C20_RecoveryClearsWal == (flow.phase = "boot" /\ wal.exists) ~> RecoveredClean

====
